---- MODULE Spec2Model ----
(***************************************************************************)
(* WebexTools: the resilient HTTP session (webextools/http.py) and the     *)
(* SCIM directory client built on it (webextools/scim.py), as a state      *)
(* machine.  One session runs one operation at a time; the generators of   *)
(* Session.request and SCIM.get_users are frames with a program counter,   *)
(* suspended at their yield and resumed by whoever iterates them.          *)
(***************************************************************************)
EXTENDS Integers, Sequences, FiniteSets, TLC

\* ------------------------------------------------------------------ bounds
\* Session.max_retries ranges over 0..MaxRetries (the constructor's default
\* is 6; the loop treats every value alike).
MaxRetries == 2
\* Network calls (client.request) one operation may make.
MaxCalls == 4
\* Resources held by the directory: 0..MaxUsers.
MaxUsers == 3
\* Page sizes served by the directory: 1..MaxPage.
MaxPage == 2
\* Pages of a link-paginated collection: 1..MaxLinked.
MaxLinked == 3
\* Operations run one after the other on one session.
MaxOps == 2
MaxReceived == 3
CookieRetries == 1

\* ------------------------------------------------------- program constants
\* http.py:45  self.params["timeout"] = 10
DefaultTimeout == 10
\* http.py:203  response.headers.get("Retry-After", 15)
DefaultRetryAfter == 15
\* http.py:28  max_retries: int = 6
DefaultMaxRetries == 6

\* Python's None.
None == "None"

\* Python's dict.get(key, default) on a mapping modelled as a function.
Get(d, k, default) == IF k \in DOMAIN d THEN d[k] ELSE default

\* The empty mapping.
EmptyDict == [k \in {} |-> None]

\* dict.update / item assignment: right-biased merge of two mappings.
Update(d, e) == [k \in (DOMAIN d) \cup (DOMAIN e) |-> IF k \in DOMAIN e THEN e[k] ELSE d[k]]

Last(s) == s[Len(s)]

\* --------------------------------------------------------------------- URLs
\* A URL is a sequence of tokens; ":" and "/" are tokens of their own and a
\* word token stands for a run of characters holding neither.
SchemeWords == {"https", "HTTPS", "host", "items"}

\* str.lower() on a word token.
Lower(t) == IF t = "HTTPS" THEN "https" ELSE t

\* str.find(":"): the index of the first ":" token, 0 when there is none.
FindColon(u) ==
  IF \E i \in 1..Len(u) : u[i] = ":"
  THEN CHOOSE i \in 1..Len(u) : u[i] = ":" /\ \A j \in 1..(i - 1) : u[j] # ":"
  ELSE 0

\* urlparse(url).scheme: the text before the first ":" when it is made of
\* scheme characters only, lower-cased; <<>> when the URL has no scheme.
UrlScheme(u) ==
  LET i == FindColon(u) IN
  IF i > 1 /\ \A j \in 1..(i - 1) : u[j] \in SchemeWords
  THEN [j \in 1..(i - 1) |-> Lower(u[j])]
  ELSE <<>>

\* str.startswith
StartsWith(u, p) == Len(p) <= Len(u) /\ SubSeq(u, 1, Len(p)) = p

\* settings.DEFAULT_IDENTITY_URL / DEFAULT_BASE_URL, the session's base_url.
base_url == <<"https", ":", "//", "host">>

\* Session.normalize_url
normalize_url(u) ==
  IF UrlScheme(u) = <<>> \/ ~StartsWith(u, UrlScheme(u))
  THEN base_url \o <<"/">> \o u
  ELSE u

\* f"scim/{org_id}/v2/Users"
UsersUrl(org) == <<"scim", "/", org, "/", "v2", "/", "Users">>

\* f"scim/{org_id}/v2/Users/{user_id}"
UserUrl(org, uid) == UsersUrl(org) \o <<"/", uid>>

\* The relative URL a caller of Session.request asks for (page 1 of the
\* link-paginated collection).
ItemsUrl == <<"items">>

\* Names of the pages of the link-paginated collection.
PageNames == <<"p1", "p2", "p3", "p4", "p5", "p6">>

\* The absolute URL the server advertises for page k (k >= 2).
PageUrl(k) == <<"https", ":", "//", "host", "/", "items", "/", PageNames[k]>>

\* ---------------------------------------------------------------- statuses
\* http.py:193-198
SuccessStatuses == {200, 201, 202, 204}
TOO_MANY_REQUESTS == 429
PROXY_AUTHENTICATION_REQUIRED == 407

\* httpx.Response.raise_for_status: every status that is not 2xx raises
\* HTTPStatusError.
RaisesForStatus(status) == ~(status >= 200 /\ status <= 299)

\* ------------------------------------------------------------ HTTP messages
\* A response: status, headers (a mapping with the optional keys "Link" and
\* "Retry-After"), cookies (a mapping name -> value) and body.  A body is
\* [json |-> FALSE] for empty text, [json |-> TRUE, data |-> d] for a JSON
\* object d, and carries the field array when its text is a JSON array.
NoBody == [json |-> FALSE, data |-> EmptyDict]
JsonBody(d) == [json |-> TRUE, data |-> d]
JsonArrayBody == [json |-> TRUE, data |-> EmptyDict, array |-> TRUE]

\* json.loads of the body's text gives a dict.
IsJsonObject(body) == body.json /\ "array" \notin DOMAIN body

Response(status, headers, body) ==
  [status |-> status, headers |-> headers, cookies |-> EmptyDict, body |-> body]

\* ------------------------------------------------------------ the directory
\* Identifiers of the directory's resources, in directory order.
UserIds == <<"u1", "u2", "u3", "u4", "u5", "u6">>

\* The user id no resource has.
GhostId == "ghost"

\* Resource i of the directory as the server serialises it: odd resources are
\* active accounts, even ones are disabled.
Resource(i) == [id |-> UserIds[i], userName |-> UserIds[i], active |-> (i % 2 = 1)]

Min(a, b) == IF a <= b THEN a ELSE b

\* The Resources array of a listing that starts at index start (1-based)
\* and holds at most count items of a directory of n resources.
PageItems(n, start, count) ==
  LET first == IF start < 1 THEN 1 ELSE start
      last == Min(first + count - 1, n)
  IN [k \in 1..(IF last >= first THEN last - first + 1 ELSE 0) |-> Resource(first + k - 1)]

\* The list response of a SCIM server for ?startIndex=start&count=count.
ListBody(n, start, count) ==
  LET items == PageItems(n, start, count) IN
  JsonBody([totalResults |-> n, itemsPerPage |-> Len(items), startIndex |-> start,
            Resources |-> items])

\* ---------------------------------------------------------------- users.py
\* User.__post_init__: every attribute is read with dict.get and a default.
\* User.__post_init__ with True as the default of the active flag.
User_ActiveByDefault(d) ==
  [id |-> Get(d, "id", ""),
   user_name |-> Get(d, "userName", ""),
   emails |-> Get(d, "emails", <<>>),
   display_name |-> Get(d, "displayName", ""),
   nick_name |-> Get(d, "nickName", ""),
   first_name |-> Get(Get(d, "name", EmptyDict), "givenName", ""),
   last_name |-> Get(Get(d, "name", EmptyDict), "familyName", ""),
   roles |-> Get(d, "roles", <<>>),
   timezone |-> Get(d, "timezone", ""),
   active |-> Get(d, "active", TRUE),
   type |-> Get(d, "userType", "")]

User(d) ==
  [id |-> Get(d, "id", ""),
   user_name |-> Get(d, "userName", ""),
   emails |-> Get(d, "emails", <<>>),
   display_name |-> Get(d, "displayName", ""),
   nick_name |-> Get(d, "nickName", ""),
   first_name |-> Get(Get(d, "name", EmptyDict), "givenName", ""),
   last_name |-> Get(Get(d, "name", EmptyDict), "familyName", ""),
   roles |-> Get(d, "roles", <<>>),
   timezone |-> Get(d, "timezone", ""),
   active |-> Get(d, "active", FALSE),
   type |-> Get(d, "userType", "")]

\* ------------------------------------------------------------------ state
VARIABLES
  kind,            \* "Session": a bare Session; "SCIM": a SCIM client and its session
  max_retries,     \* Session.max_retries
  params,          \* Session.params: the options of every httpx.Client it builds
  self_org,        \* SCIM.org_id
  server,          \* "honest" or "faulty": how the remote API behaves
  dirN,            \* number of resources in the directory
  pageSize,        \* the directory's default page size
  nPages,          \* pages of the link-paginated collection
  op,              \* the operation in progress or last run
  ops,             \* operations started on this session
  args,            \* the arguments of op
  result,          \* what op returned or raised
  rpc,             \* Session.request frame: none, fresh, run, yield, done, raised
  retries,         \* Session.request: retries
  url,             \* Session.request: url (<<>> is None)
  method,          \* Session.request: method
  kwargs,          \* Session.request: **params
  client,          \* the options the httpx.Client of this call was built with
  rerr,            \* the exception Session.request raised
  response,        \* Session.request: response, the one last yielded
  gpc,             \* SCIM.get_users frame: none, fresh, top, for, pending, yield, done, raised
  total_results,   \* SCIM.get_users: total_results
  next_index,      \* SCIM.get_users: next_index
  items_per_page,  \* SCIM.get_users: items_per_page
  gparams,         \* SCIM.get_users: params
  gorg,            \* SCIM.get_users: org_id
  pending,         \* SCIM.get_users: resources of the current page not yet yielded
  asked,           \* next() calls made by the consumer of the sequence
  out,             \* User records SCIM.get_users yielded
  log,             \* network calls, responses, sleeps, prompts and yields of op, in order
  users,           \* disable_users: users, the list it was given
  du_i,            \* disable_users: number of users the for loop has finished
  report,          \* disable_users: report
  patched,         \* the user ids disable_users called update_user_patch for, in order
  ret,             \* the value a helper function returned
  received         \* the cookies of the responses this session processed, in arrival order

vars == <<kind, max_retries, params, self_org, server, dirN, pageSize, nPages,
          op, ops, args, result, rpc, retries, url, method, kwargs, client, rerr,
          response, gpc, total_results, next_index, items_per_page, gparams, gorg,
          pending, asked, out, log, users, du_i, report, patched, ret, received>>

envVars == <<kind, max_retries, self_org, server, dirN, pageSize, nPages>>
reqVars == <<rpc, retries, url, method, kwargs, client, rerr, response>>
guVars == <<gpc, total_results, next_index, items_per_page, gparams, gorg, pending>>
callerVars == <<users, du_i, report, patched, ret>>

\* ---------------------------------------------------------------- the log
Event(t, v) == [t |-> t, v |-> v]

OfType(t) == SelectSeq(log, LAMBDA e : e.t = t)

\* The requests sent so far by op, the responses Session.request yielded, the
\* sleeps it took.
Calls == OfType("call")
Yields == OfType("yield")
Sleeps == OfType("sleep")
NCalls == Len(Calls)

\* --------------------------------------------------------------- the server
\* The Link header of page k of the link-paginated collection.
PageLinks(k) ==
  (IF k < nPages THEN <<[url |-> PageUrl(k + 1), rel |-> "next"]>> ELSE <<>>)
  \o (IF k > 1 THEN <<[url |-> IF k = 2 THEN normalize_url(ItemsUrl) ELSE PageUrl(k - 1),
                       rel |-> "prev"]>> ELSE <<>>)

PageHeaders(k) == IF PageLinks(k) = <<>> THEN EmptyDict ELSE ("Link" :> PageLinks(k))

\* The page a URL of the link-paginated collection names.
PageOf(u) ==
  IF u = normalize_url(ItemsUrl) THEN 1
  ELSE CHOOSE k \in 1..Len(PageNames) : PageNames[k] = Last(u)

\* The index of the resource with identifier uid, 0 when there is none.
IndexOf(uid) ==
  IF \E i \in 1..dirN : UserIds[i] = uid
  THEN CHOOSE i \in 1..dirN : UserIds[i] = uid
  ELSE 0

RECURSIVE ApplyOps(_, _)
ApplyOps(res, operations) ==
  IF operations = <<>> THEN res
  ELSE ApplyOps(Update(res, Head(operations).value), Tail(operations))

\* What a well-behaved server answers to a request.
HonestResponse(call) ==
  LET q == Get(call.kwargs, "params", EmptyDict) IN
  IF kind = "Session"
  THEN Response(200, PageHeaders(PageOf(call.url)),
                JsonBody([page |-> PageNames[PageOf(call.url)]]))
  ELSE IF Last(call.url) = "Users"
  THEN Response(200, EmptyDict,
                ListBody(dirN, Get(q, "startIndex", 1), Get(q, "count", pageSize)))
  ELSE IF IndexOf(Last(call.url)) = 0
  THEN Response(200, EmptyDict, NoBody)
  ELSE IF call.method = "PATCH"
  THEN Response(200, EmptyDict,
                JsonBody(ApplyOps(Resource(IndexOf(Last(call.url))),
                                  Get(call.kwargs.json, "Operations", <<>>))))
  ELSE Response(200, EmptyDict, JsonBody(Resource(IndexOf(Last(call.url)))))

\* Values of the Retry-After header a throttling server sends.
RetryAfterValues == {"3"}

FaultResponses ==
  {Response(204, EmptyDict, NoBody),
   Response(TOO_MANY_REQUESTS, EmptyDict, NoBody),
   Response(PROXY_AUTHENTICATION_REQUIRED, EmptyDict, NoBody),
   Response(404, EmptyDict, NoBody),
   Response(500, EmptyDict, NoBody)}
  \cup {Response(TOO_MANY_REQUESTS, ("Retry-After" :> ra), NoBody) : ra \in RetryAfterValues}

\* The failures of an API whose error responses come with a JSON document
\* ({"message": ...}), with a JSON array or, from a gateway in front of it,
\* without a body.
ApiFaults ==
  {Response(TOO_MANY_REQUESTS, EmptyDict, NoBody),
   Response(500, EmptyDict, JsonBody([message |-> "error"])),
   Response(500, EmptyDict, JsonArrayBody),
   Response(500, EmptyDict, NoBody)}

\* The cookies a response can set.
CookieJars ==
  {EmptyDict, ("a" :> "1"), ("a" :> "2") @@ ("b" :> "2"), ("b" :> "3")}

\* A server that sets cookies: any of four statuses with any of the cookies,
\* and no more cookies once MaxReceived responses have set some.
CookieResponses ==
  LET jars == IF Len(received) < MaxReceived THEN CookieJars ELSE {EmptyDict} IN
  {[Response(st, EmptyDict, NoBody) EXCEPT !.cookies = c] :
     st \in {200, TOO_MANY_REQUESTS, PROXY_AUTHENTICATION_REQUIRED, 404}, c \in jars}

\* Largest value of totalResults, itemsPerPage and startIndex in a page.
MaxField == 3

\* Number of list requests the arbitrary server answers.
MaxArbitrary == 2

\* The list documents a server may answer with, well-formed or not: any
\* counts, Resources absent, empty or holding one resource; or no key at all.
ArbitraryPages ==
  {[totalResults |-> t, itemsPerPage |-> k, startIndex |-> i] :
     t \in 0..MaxField, k \in 0..MaxField, i \in 0..MaxField}
  \cup {[totalResults |-> t, itemsPerPage |-> k, startIndex |-> i, Resources |-> r] :
     t \in 0..MaxField, k \in 0..MaxField, i \in 0..MaxField,
     r \in {<<>>, <<Resource(1)>>}}
  \cup {EmptyDict}

\* A server that answers every list request with 200 and some list document.
ArbitraryResponses ==
  IF NCalls < MaxArbitrary
  THEN {Response(200, EmptyDict, JsonBody(data)) : data \in ArbitraryPages}
  ELSE {}

ServerResponses(call) ==
  IF server = "honest" THEN {HonestResponse(call)}
  ELSE IF server = "cookies" THEN CookieResponses
  ELSE IF server = "arbitrary" THEN ArbitraryResponses
  ELSE IF server = "api" THEN {HonestResponse(call)} \cup ApiFaults
  ELSE {HonestResponse(call)} \cup FaultResponses

\* The history of cookies received, after response r (responses that set no
\* cookie leave it alone).
Received(h, r) == IF DOMAIN r.cookies = {} THEN h ELSE Append(h, r.cookies)

\* ------------------------------------------------- Session (webextools/http.py)
\* Session.__init__: the options of a session built with this authorization.
SessionParams(authorization) ==
  IF authorization # ""
  THEN [timeout |-> DefaultTimeout, headers |-> [Authorization |-> authorization]]
  ELSE [timeout |-> DefaultTimeout]

\* int() on the text of a header.
IntOfString(str) ==
  CASE str = "0" -> 0
    [] str = "3" -> 3
    [] str = "15" -> 15

\* RetryAfter with the header ignored: always the default.
RetryAfter_IgnoresHeader(r) == DefaultRetryAfter

\* int(response.headers.get("Retry-After", 15))
RetryAfter(r) ==
  IF "Retry-After" \in DOMAIN r.headers
  THEN IntOfString(r.headers["Retry-After"])
  ELSE DefaultRetryAfter

\* Session.process_response, first half: the session's options after the
\* response's cookies were merged into them.
StoreCookies(p, r) ==
  IF DOMAIN r.cookies # {}
  THEN IF "cookies" \in DOMAIN p
       THEN Update(p, [cookies |-> Update(p.cookies, r.cookies)])
       ELSE Update(p, [cookies |-> r.cookies])
  ELSE p

\* process_response without its 429 branch taken as a signal: a 429 response
\* is handed back like a successful one.
process_response_Yields429(r) ==
  IF r.status \in SuccessStatuses \/ r.status = TOO_MANY_REQUESTS THEN "return"
  ELSE IF r.status = PROXY_AUTHENTICATION_REQUIRED THEN "ProxyAuthenticationRequired"
  ELSE IF RaisesForStatus(r.status) THEN "HTTPStatusError"
  ELSE "return"

\* process_response raising RateLimit for every error status but 407.
process_response_RetriesErrors(r) ==
  IF r.status \in SuccessStatuses THEN "return"
  ELSE IF r.status = PROXY_AUTHENTICATION_REQUIRED THEN "ProxyAuthenticationRequired"
  ELSE IF RaisesForStatus(r.status) THEN "RateLimit"
  ELSE "return"

\* Session.process_response, second half: "return" or the exception raised.
process_response(r) ==
  IF r.status \in SuccessStatuses THEN "return"
  ELSE IF r.status = TOO_MANY_REQUESTS THEN "RateLimit"
  ELSE IF r.status = PROXY_AUTHENTICATION_REQUIRED THEN "ProxyAuthenticationRequired"
  ELSE IF RaisesForStatus(r.status) THEN "HTTPStatusError"
  ELSE "return"

\* The for loop over the parsed Link header (http.py:131-134): each link
\* with rel "next" assigns url, and `continue` goes on with the next link.
RECURSIVE UrlAfterLinks(_, _)
UrlAfterLinks(u, links) ==
  IF links = <<>> THEN u
  ELSE UrlAfterLinks(IF Head(links).rel = "next" THEN Head(links).url ELSE u, Tail(links))

\* `if link_header := response.headers.get("Link")` (http.py:128).
HasLinkHeader(r) == "Link" \in DOMAIN r.headers /\ r.headers["Link"] # <<>>

\* The outcomes of httpx._utils.parse_header_links(link_header) (http.py:129).
\* The function is private to httpx and the repository pins no version of
\* it: where httpx still has it the links are parsed (TRUE), where it is gone
\* (httpx 0.28) the attribute lookup raises AttributeError (FALSE).
ParserOutcomes(r) == IF HasLinkHeader(r) THEN BOOLEAN ELSE {TRUE}

\* The code after `yield response` (http.py:128-136) when no exception is
\* raised: the Link header is inspected, then `url = None` runs whatever the
\* loop over the links found.
UrlAfterYield(u, r) ==
  LET found == IF HasLinkHeader(r)
               THEN UrlAfterLinks(u, r.headers["Link"])
               ELSE u
  IN <<>>

\* The condition of the while loop (http.py:110).
\* The while condition without its test of the retry counter.
LoopCond_NoRetryLimit == url # <<>>

LoopCond == retries <= max_retries /\ url # <<>>

\* client.request(method, self.normalize_url(url), **params) as sent.
Call ==
  [method |-> method, url |-> normalize_url(url), kwargs |-> kwargs,
   headers |-> Get(client, "headers", EmptyDict)]

\* prompt_proxy_credentials() wrapped in httpx.BasicAuth.
ProxyCredentials == "BasicAuth"

\* httpx.Client(**self.params) (http.py:109) accepts the options: every header
\* value is text.  The httpx.BasicAuth object the 407 handler stores is not,
\* and httpx raises TypeError for it.
ClientBuilds(p) ==
  \A h \in DOMAIN Get(p, "headers", EmptyDict) : p.headers[h] # ProxyCredentials

\* next() on the generator of Session.request: its first call runs the body
\* from `retries = 0` and opens the client; a later call resumes after the
\* yield.  Control is then at the test of the while loop, unless building
\* the client (http.py:109) or parsing the Link header (http.py:129) raised.
ReqNext ==
  /\ rpc \in {"fresh", "yield"}
  /\ IF rpc = "fresh"
     THEN /\ retries' = 0 /\ url' = url
          /\ IF ClientBuilds(params)
             THEN rpc' = "run" /\ client' = params /\ rerr' = rerr /\ log' = log
             ELSE /\ rpc' = "raised" /\ client' = client /\ rerr' = "TypeError"
                  /\ log' = Append(log, Event("error", "TypeError"))
     ELSE /\ retries' = retries /\ client' = client
          /\ \E parsed \in ParserOutcomes(response) :
               IF parsed
               THEN /\ rpc' = "run" /\ url' = UrlAfterYield(url, response)
                    /\ rerr' = rerr /\ log' = log
               ELSE /\ rpc' = "raised" /\ url' = url /\ rerr' = "AttributeError"
                    /\ log' = Append(log, Event("error", "AttributeError"))
  /\ UNCHANGED <<method, kwargs, response>>

\* One pass of the while loop whose request fails in the transport
\* (httpx.RequestError): re-raised to the caller.
ReqTransportError ==
  /\ rpc = "run" /\ LoopCond /\ NCalls < MaxCalls
  /\ server \in {"faulty", "api"}
  /\ log' = log \o <<Event("call", Call), Event("error", "RequestError")>>
  /\ rpc' = "raised"
  /\ rerr' = "RequestError"
  /\ UNCHANGED <<retries, url, method, kwargs, client, response>>
  /\ UNCHANGED <<envVars, callerVars, received, params, op, ops, args, result, guVars, asked, out>>

\* One pass of the while loop whose response passes process_response: the
\* response is yielded.
ReqSuccess ==
  /\ rpc = "run" /\ LoopCond /\ NCalls < MaxCalls
  /\ \E r \in ServerResponses(Call) :
       /\ received' = Received(received, r)
       /\ process_response(r) = "return"
       /\ params' = StoreCookies(params, r)
       /\ response' = r
       /\ log' = log \o <<Event("call", Call), Event("recv", r), Event("yield", r)>>
  /\ rpc' = "yield"
  /\ UNCHANGED <<retries, url, method, kwargs, client, rerr>>
  /\ UNCHANGED <<envVars, callerVars, op, ops, args, result, guVars, asked, out>>

\* One pass of the while loop that ends in `except RateLimit`.
ReqRateLimit ==
  /\ rpc = "run" /\ LoopCond /\ NCalls < MaxCalls
  /\ \E r \in ServerResponses(Call) :
       /\ received' = Received(received, r)
       /\ process_response(r) = "RateLimit"
       /\ params' = StoreCookies(params, r)
       /\ log' = log \o <<Event("call", Call), Event("recv", r),
                          Event("sleep", RetryAfter(r))>>
  /\ retries' = retries + 1
  /\ UNCHANGED <<rpc, url, method, kwargs, client, rerr, response>>
  /\ UNCHANGED <<envVars, callerVars, op, ops, args, result, guVars, asked, out>>

\* ReqProxyAuth with a 407 that leaves the retry counter alone.
ReqProxyAuth_OwnBudget ==
  /\ rpc = "run" /\ LoopCond /\ NCalls < MaxCalls
  /\ \E r \in ServerResponses(Call) :
       /\ received' = Received(received, r)
       /\ process_response(r) = "ProxyAuthenticationRequired"
       /\ LET p == StoreCookies(params, r) IN
          IF "headers" \in DOMAIN p
          THEN /\ params' = Update(p, [headers |->
                               Update(p.headers, ("Proxy-Authorization" :> ProxyCredentials))])
               /\ retries' = retries
               /\ log' = log \o <<Event("call", Call), Event("recv", r),
                                  Event("prompt", ProxyCredentials)>>
               /\ UNCHANGED <<rpc, rerr>>
          ELSE /\ params' = p
               /\ rpc' = "raised"
               /\ rerr' = "KeyError"
               /\ log' = log \o <<Event("call", Call), Event("recv", r),
                                  Event("prompt", ProxyCredentials),
                                  Event("error", "KeyError")>>
               /\ UNCHANGED retries
  /\ UNCHANGED <<url, method, kwargs, client, response>>
  /\ UNCHANGED <<envVars, callerVars, op, ops, args, result, guVars, asked, out>>

\* One pass of the while loop that ends in `except ProxyAuthenticationRequired`:
\* the credentials are stored under params["headers"], which exists only
\* when the session was built with an authorization (KeyError otherwise).
ReqProxyAuth ==
  /\ rpc = "run" /\ LoopCond /\ NCalls < MaxCalls
  /\ \E r \in ServerResponses(Call) :
       /\ received' = Received(received, r)
       /\ process_response(r) = "ProxyAuthenticationRequired"
       /\ LET p == StoreCookies(params, r) IN
          IF "headers" \in DOMAIN p
          THEN /\ params' = Update(p, [headers |->
                               Update(p.headers, ("Proxy-Authorization" :> ProxyCredentials))])
               /\ retries' = retries + 1
               /\ log' = log \o <<Event("call", Call), Event("recv", r),
                                  Event("prompt", ProxyCredentials)>>
               /\ UNCHANGED <<rpc, rerr>>
          ELSE /\ params' = p
               /\ rpc' = "raised"
               /\ rerr' = "KeyError"
               /\ log' = log \o <<Event("call", Call), Event("recv", r),
                                  Event("prompt", ProxyCredentials),
                                  Event("error", "KeyError")>>
               /\ UNCHANGED retries
  /\ UNCHANGED <<url, method, kwargs, client, response>>
  /\ UNCHANGED <<envVars, callerVars, op, ops, args, result, guVars, asked, out>>

\* One pass of the while loop whose response makes raise_for_status raise
\* (httpx.HTTPStatusError): re-raised to the caller.
ReqHTTPError ==
  /\ rpc = "run" /\ LoopCond /\ NCalls < MaxCalls
  /\ \E r \in ServerResponses(Call) :
       /\ received' = Received(received, r)
       /\ process_response(r) = "HTTPStatusError"
       /\ params' = StoreCookies(params, r)
       /\ log' = log \o <<Event("call", Call), Event("recv", r),
                          Event("error", "HTTPStatusError")>>
  /\ rpc' = "raised"
  /\ rerr' = "HTTPStatusError"
  /\ UNCHANGED <<retries, url, method, kwargs, client, response>>
  /\ UNCHANGED <<envVars, callerVars, op, ops, args, result, guVars, asked, out>>

\* The while condition is false: the generator returns (StopIteration).
ReqExit ==
  /\ rpc = "run" /\ ~LoopCond
  /\ rpc' = "done"
  /\ UNCHANGED <<retries, url, method, kwargs, client, rerr, response>>
  /\ UNCHANGED <<envVars, callerVars, received, params, op, ops, args, result, guVars, asked, out, log>>

\* ------------------------------------------------------- results of an op
Running == [kind |-> "running", exc |-> "", user |-> EmptyDict]
Raised(e) == [kind |-> "raise", exc |-> e, user |-> EmptyDict]
ReturnedNone == [kind |-> "None", exc |-> "", user |-> EmptyDict]
ReturnedUser(u) == [kind |-> "User", exc |-> "", user |-> u]
\* The sequence ended normally (StopIteration).
Exhausted == [kind |-> "exhausted", exc |-> "", user |-> EmptyDict]
Idle == [kind |-> "idle", exc |-> "", user |-> EmptyDict]
\* A function returned a value that is no User and not None.
Returned == [kind |-> "returned", exc |-> "", user |-> EmptyDict]
\* The consumer dropped the sequence before its end.
Abandoned == [kind |-> "abandoned", exc |-> "", user |-> EmptyDict]

CanStart == result.kind # "running" /\ ops < MaxOps

NoFrame ==
  /\ rpc' = "none" /\ retries' = 0 /\ url' = <<>> /\ method' = "" /\ kwargs' = EmptyDict
  /\ client' = EmptyDict /\ rerr' = "" /\ response' = EmptyDict

NoGUFrame ==
  /\ gpc' = "none" /\ total_results' = 0 /\ next_index' = 0 /\ items_per_page' = 0
  /\ gparams' = EmptyDict /\ gorg' = "" /\ pending' = <<>>

\* A generator of Session.request is created for (m, u, kw): its body has not
\* started.
NewRequest(m, u, kw) ==
  /\ rpc' = "fresh" /\ method' = m /\ url' = u /\ kwargs' = kw
  /\ retries' = 0 /\ client' = EmptyDict /\ rerr' = "" /\ response' = EmptyDict

\* ------------------------------------------------- a caller of Session.request
Methods == {"GET", "POST", "PUT", "DELETE", "PATCH"}

\* session.request(m, "items"): the sequence is created.
StartRequest ==
  /\ CanStart /\ kind = "Session"
  /\ \E m \in Methods : NewRequest(m, ItemsUrl, EmptyDict)
  /\ op' = "request" /\ ops' = ops + 1 /\ args' = EmptyDict /\ result' = Running
  /\ asked' = 0 /\ out' = <<>> /\ log' = <<>>
  /\ NoGUFrame
  /\ UNCHANGED <<envVars, callerVars, received, params>>

\* The consumer asks the sequence of Session.request for its next element.
ConsumerNext ==
  /\ op = "request" /\ result = Running
  /\ ReqNext
  /\ asked' = asked + 1
  /\ UNCHANGED <<envVars, callerVars, received, params, op, ops, args, result, guVars, out>>

\* The consumer's next() ends: StopIteration, or the exception of the call.
ConsumerEnd ==
  /\ op = "request" /\ result = Running
  /\ rpc \in {"done", "raised"}
  /\ result' = IF rpc = "done" THEN Exhausted ELSE Raised(rerr)
  /\ UNCHANGED <<envVars, callerVars, received, params, op, ops, args, reqVars, guVars, asked, out, log>>

\* The consumer stops iterating a sequence suspended at its yield and drops
\* it (as `next(...)` on a fresh sequence does, disable_users.py:128): the
\* generators are closed at their yield and the client of the call with them.
Abandon ==
  /\ result = Running
  /\ \/ op = "request" /\ rpc = "yield"
     \/ op = "get_users" /\ gpc = "yield"
  /\ result' = Abandoned
  /\ rpc' = "closed"
  /\ gpc' = IF op = "get_users" THEN "closed" ELSE gpc
  /\ UNCHANGED <<retries, url, method, kwargs, client, rerr, response>>
  /\ UNCHANGED <<total_results, next_index, items_per_page, gparams, gorg, pending>>
  /\ UNCHANGED <<envVars, callerVars, received, params, op, ops, args, asked, out, log>>

\* --------------------------------------------------- SCIM (webextools/scim.py)
\* Values of the org_id argument: "" is the default of the parameter.
OrgArgs == {"", "o2"}

\* Values of the user_id argument.
UserArgs == {UserIds[i] : i \in 1..dirN} \cup {GhostId}

\* Patch documents handed to update_user_patch.
DisablePatch ==
  [is_dict |-> TRUE,
   d |-> [schemas |-> <<"urn:ietf:params:scim:api:messages:2.0:PatchOp">>,
          Operations |-> <<[op |-> "replace", value |-> [active |-> FALSE]]>>]]

PatchDocs ==
  {DisablePatch,
   [is_dict |-> TRUE, d |-> [Operations |-> DisablePatch.d.Operations]],
   [is_dict |-> TRUE, d |-> [schemas |-> DisablePatch.d.schemas]],
   [is_dict |-> FALSE, d |-> EmptyDict]}

\* The default organization taking precedence over the argument.
OrgOf_DefaultFirst(org) == IF self_org # "" THEN self_org ELSE org

\* org_id = org_id or self.org_id
OrgOf(org) == IF org # "" THEN org ELSE self_org

\* The validation of scim.py:104 without its test of "Operations".
ValidPatch_SchemasOnly(data) == data.is_dict /\ "schemas" \in DOMAIN data.d

\* scim.py:104
ValidPatch(data) ==
  data.is_dict /\ "schemas" \in DOMAIN data.d /\ "Operations" \in DOMAIN data.d

\* SCIM.get_user up to `response = self.session.get(url)`.
StartGetUser ==
  /\ CanStart /\ kind = "SCIM"
  /\ \E uid \in UserArgs, org \in OrgArgs :
       /\ args' = [user_id |-> uid, org_id |-> org]
       /\ IF OrgOf(org) = ""
          THEN result' = Raised("ValueError") /\ NoFrame
          ELSE result' = Running /\ NewRequest("GET", UserUrl(OrgOf(org), uid), EmptyDict)
  /\ op' = "get_user" /\ ops' = ops + 1
  /\ asked' = 0 /\ out' = <<>> /\ log' = <<>>
  /\ NoGUFrame
  /\ UNCHANGED <<envVars, callerVars, received, params>>

\* SCIM.update_user_patch up to `response = self.session.patch(url, json=data)`.
StartUpdateUserPatch ==
  /\ CanStart /\ kind = "SCIM"
  /\ \E uid \in UserArgs, org \in OrgArgs, data \in PatchDocs :
       /\ args' = [user_id |-> uid, org_id |-> org, data |-> data]
       /\ IF OrgOf(org) = "" \/ ~ValidPatch(data)
          THEN result' = Raised("ValueError") /\ NoFrame
          ELSE /\ result' = Running
               /\ NewRequest("PATCH", UserUrl(OrgOf(org), uid), [json |-> data.d])
  /\ op' = "update_user_patch" /\ ops' = ops + 1
  /\ asked' = 0 /\ out' = <<>> /\ log' = <<>>
  /\ NoGUFrame
  /\ UNCHANGED <<envVars, callerVars, received, params>>

\* list(response) asks the sequence for its next element.
ListNext ==
  /\ op \in {"get_user", "update_user_patch"} /\ result = Running
  /\ ReqNext
  /\ UNCHANGED <<envVars, callerVars, received, params, op, ops, args, result, guVars, asked, out>>

\* response.json()
JsonFails(r) == ~r.body.json

\* list(response) is complete (scim.py:84-87, 116-119): None for an empty
\* list, else User(response[0].json()).
ListEnd ==
  /\ op \in {"get_user", "update_user_patch"} /\ result = Running
  /\ rpc = "done"
  /\ result' = IF Yields = <<>> THEN ReturnedNone
               ELSE IF JsonFails(Yields[1].v) THEN Raised("JSONDecodeError")
               ELSE ReturnedUser(User(Yields[1].v.body.data))
  /\ UNCHANGED <<envVars, callerVars, received, params, op, ops, args, reqVars, guVars, asked, out, log>>

\* list(response) is interrupted by the exception of Session.request.
ListRaise ==
  /\ op \in {"get_user", "update_user_patch"} /\ result = Running
  /\ rpc = "raised"
  /\ result' = Raised(rerr)
  /\ UNCHANGED <<envVars, callerVars, received, params, op, ops, args, reqVars, guVars, asked, out, log>>

\* api.get_users(org): a generator function, nothing of its body runs yet.
StartGetUsers ==
  /\ CanStart /\ kind = "SCIM"
  /\ \E org \in OrgArgs : args' = [org_id |-> org]
  /\ op' = "get_users" /\ ops' = ops + 1 /\ result' = Running
  /\ gpc' = "fresh"
  /\ total_results' = 0 /\ next_index' = 0 /\ items_per_page' = 0
  /\ gparams' = EmptyDict /\ gorg' = "" /\ pending' = <<>>
  /\ asked' = 0 /\ out' = <<>> /\ log' = <<>>
  /\ NoFrame
  /\ UNCHANGED <<envVars, callerVars, received, params>>

\* The consumer asks the sequence of get_users for its next element.  The
\* first call runs scim.py:23-30; a later call resumes after `yield User(..)`.
GUNext ==
  /\ op = "get_users" /\ result = Running
  /\ gpc \in {"fresh", "yield"}
  /\ asked' = asked + 1
  /\ IF gpc = "fresh"
     THEN /\ total_results' = 0 /\ next_index' = 1 /\ items_per_page' = 0
          /\ gorg' = OrgOf(args.org_id)
          /\ IF OrgOf(args.org_id) = ""
             THEN gpc' = "raised" /\ result' = Raised("ValueError")
             ELSE gpc' = "top" /\ result' = result
     ELSE /\ gpc' = "pending"
          /\ UNCHANGED <<total_results, next_index, items_per_page, gorg, result>>
  /\ UNCHANGED <<gparams, pending>>
  /\ UNCHANGED <<envVars, callerVars, received, params, op, ops, args, reqVars, out, log>>

\* The params dict of scim.py:34-37.
PageParams ==
  IF items_per_page # 0
  THEN [startIndex |-> next_index, count |-> items_per_page]
  ELSE [startIndex |-> next_index]

\* The options scim.py:39-41 hands to session.get: the url alone.
GetUsersOptions(p) == EmptyDict

\* Top of `while True` (scim.py:33-43): url and params are built, the request
\* sequence is created by self.session.get(url, ) and the for loop asks it
\* for its first element.
GUTop ==
  /\ op = "get_users" /\ gpc = "top"
  /\ gparams' = PageParams
  /\ method' = "GET" /\ url' = UsersUrl(gorg) /\ kwargs' = GetUsersOptions(PageParams)
  /\ retries' = 0 /\ response' = EmptyDict
  /\ IF ClientBuilds(params)
     THEN rpc' = "run" /\ client' = params /\ rerr' = "" /\ log' = log
     ELSE /\ rpc' = "raised" /\ client' = EmptyDict /\ rerr' = "TypeError"
          /\ log' = Append(log, Event("error", "TypeError"))
  /\ gpc' = "for"
  /\ UNCHANGED <<total_results, next_index, items_per_page, gorg, pending>>
  /\ UNCHANGED <<envVars, callerVars, received, params, op, ops, args, result, asked, out>>

\* scim.py:46-47: total_results is read while it is still falsy.
TotalAfter(total, data) == IF total = 0 THEN Get(data, "totalResults", 0) ELSE total

\* scim.py:49
ItemsPerPageOf(data) == Get(data, "itemsPerPage", 0)

\* scim.py:50
NextIndexOf(data) == Get(data, "startIndex", 1) + ItemsPerPageOf(data)

\* scim.py:52-54: the resources the page yields (none when absent or empty).
ResourcesOf(data) == Get(data, "Resources", <<>>)

\* Body of `for item in response` up to the loop over the resources
\* (scim.py:44-54).
GUItem ==
  /\ op = "get_users" /\ gpc = "for" /\ rpc = "yield"
  /\ IF JsonFails(response)
     THEN /\ gpc' = "raised" /\ result' = Raised("JSONDecodeError")
          /\ UNCHANGED <<total_results, next_index, items_per_page, pending>>
     ELSE LET data == response.body.data IN
          /\ total_results' = TotalAfter(total_results, data)
          /\ items_per_page' = ItemsPerPageOf(data)
          /\ next_index' = NextIndexOf(data)
          /\ pending' = ResourcesOf(data)
          /\ gpc' = "pending" /\ result' = result
  /\ UNCHANGED <<gparams, gorg>>
  /\ UNCHANGED <<envVars, callerVars, received, params, op, ops, args, reqVars, asked, out, log>>

\* `yield User(resource)` for the next resource of the page.
GUYield ==
  /\ op = "get_users" /\ gpc = "pending" /\ pending # <<>>
  /\ out' = Append(out, User(Head(pending)))
  /\ pending' = Tail(pending)
  /\ gpc' = "yield"
  /\ UNCHANGED <<total_results, next_index, items_per_page, gparams, gorg>>
  /\ UNCHANGED <<envVars, callerVars, received, params, op, ops, args, result, reqVars, asked, log>>

\* The resources of the page are used up: the for loop asks the request
\* sequence for its next element.
GUPageDone ==
  /\ op = "get_users" /\ gpc = "pending" /\ pending = <<>>
  /\ ReqNext
  /\ gpc' = "for"
  /\ UNCHANGED <<total_results, next_index, items_per_page, gparams, gorg, pending>>
  /\ UNCHANGED <<envVars, callerVars, received, params, op, ops, args, result, asked, out>>

\* The condition of `break` (scim.py:58).
BreakCond == next_index - 1 >= total_results

\* The request sequence is exhausted: scim.py:58-59 breaks or loops.
GUForEnd ==
  /\ op = "get_users" /\ gpc = "for" /\ rpc = "done"
  /\ IF BreakCond
     THEN gpc' = "done" /\ result' = Exhausted
     ELSE gpc' = "top" /\ result' = result
  /\ UNCHANGED <<total_results, next_index, items_per_page, gparams, gorg, pending>>
  /\ UNCHANGED <<envVars, callerVars, received, params, op, ops, args, reqVars, asked, out, log>>

\* The request sequence raised: the exception leaves get_users.
GUForRaise ==
  /\ op = "get_users" /\ gpc = "for" /\ rpc = "raised"
  /\ gpc' = "raised" /\ result' = Raised(rerr)
  /\ UNCHANGED <<total_results, next_index, items_per_page, gparams, gorg, pending>>
  /\ UNCHANGED <<envVars, callerVars, received, params, op, ops, args, reqVars, asked, out, log>>

\* ------------------------------------------------------------ specification
\* The directory a faulty server fronts.
FaultyDirN == 2
FaultyPageSize == 1

\* Session.__init__ / SCIM.__init__ and the remote API they talk to.
Init ==
  /\ kind \in {"Session", "SCIM"}
  /\ max_retries \in 0..MaxRetries
  /\ server \in {"honest", "faulty"}
  /\ \E authorization \in {"", "Bearer token"} :
       /\ kind = "SCIM" => authorization # ""
       /\ params = SessionParams(authorization)
  /\ self_org \in (IF kind = "SCIM" THEN {"", "o1"} ELSE {""})
  /\ dirN \in (IF kind = "Session" THEN {0}
               ELSE IF server = "faulty" THEN {FaultyDirN} ELSE 0..MaxUsers)
  /\ pageSize \in (IF kind = "Session" THEN {1}
                   ELSE IF server = "faulty" THEN {FaultyPageSize} ELSE 1..MaxPage)
  /\ nPages \in (IF kind = "Session" THEN 1..MaxLinked ELSE {1})
  /\ op = "none" /\ ops = 0 /\ args = EmptyDict /\ result = Idle
  /\ rpc = "none" /\ retries = 0 /\ url = <<>> /\ method = "" /\ kwargs = EmptyDict
  /\ client = EmptyDict /\ rerr = "" /\ response = EmptyDict
  /\ gpc = "none" /\ total_results = 0 /\ next_index = 0 /\ items_per_page = 0
  /\ gparams = EmptyDict /\ gorg = "" /\ pending = <<>>
  /\ asked = 0 /\ out = <<>> /\ log = <<>>
  /\ users = <<>> /\ du_i = 0 /\ report = <<>> /\ patched = <<>> /\ ret = <<>>
  /\ received = <<>>

Next ==
  \/ StartRequest \/ ConsumerNext \/ ConsumerEnd \/ Abandon
  \/ StartGetUser \/ StartUpdateUserPatch \/ ListNext \/ ListEnd \/ ListRaise
  \/ StartGetUsers \/ GUNext \/ GUTop \/ GUItem \/ GUYield \/ GUPageDone
  \/ GUForEnd \/ GUForRaise
  \/ ReqTransportError \/ ReqSuccess \/ ReqRateLimit \/ ReqProxyAuth \/ ReqHTTPError
  \/ ReqExit

Spec == Init /\ [][Next]_vars

\* --------------------------------- disable_users (webextools/disable_users.py)
MaxListed == 2
DisableRetries == 1

\* The status dict of one user with its "updated" entry set.
Status(user, updated) == [id |-> user.id, email |-> user.user_name, updated |-> updated]

\* The user the for loop is at.
CurrentUser == users[du_i + 1]

\* The for loop is between two users, or before the first.
AtLoopHead == result = Idle /\ op # "disable_users" /\ du_i < Len(users)

\* An iteration for a user that is not active: lines 30-36.
DUSkip ==
  /\ AtLoopHead /\ ~CurrentUser.active
  /\ report' = Append(report, Status(CurrentUser, "Skipped"))
  /\ du_i' = du_i + 1
  /\ UNCHANGED <<envVars, params, reqVars, guVars, op, ops, args, result, asked, out, log,
                 users, patched, ret, received>>

\* An iteration for an active user up to the call of line 39, which runs
\* SCIM.update_user_patch up to its session.patch.
DUPatch ==
  /\ AtLoopHead /\ CurrentUser.active
  /\ patched' = Append(patched, CurrentUser.id)
  /\ args' = [user_id |-> CurrentUser.id, org_id |-> "", data |-> DisablePatch]
  /\ IF OrgOf("") = "" \/ ~ValidPatch(DisablePatch)
     THEN result' = Raised("ValueError") /\ NoFrame
     ELSE /\ result' = Running
          /\ NewRequest("PATCH", UserUrl(OrgOf(""), CurrentUser.id), [json |-> DisablePatch.d])
  /\ op' = "update_user_patch" /\ ops' = ops + 1
  /\ asked' = 0 /\ out' = <<>> /\ log' = <<>>
  /\ NoGUFrame
  /\ UNCHANGED <<envVars, params, users, du_i, report, ret, received>>

\* The exception helper.error(message, exc) raises, "" when it returns: the
\* exception handed to it carries a response (httpx.HTTPStatusError) whose
\* text json.loads refuses (helper.py:49), or whose JSON document is no
\* object and has no get (helper.py:51).
ErrorException ==
  IF result.kind = "raise" /\ result.exc = "HTTPStatusError"
  THEN IF JsonFails(Last(OfType("recv")).v) THEN "JSONDecodeError"
       ELSE IF ~IsJsonObject(Last(OfType("recv")).v.body) THEN "AttributeError"
       ELSE ""
  ELSE ""

ErrorRaises == ErrorException # ""

\* The rest of the iteration once update_user_patch has returned or raised:
\* lines 46-64.  An exception raised inside the except clause leaves
\* disable_users.
DUAfterPatch ==
  /\ op = "update_user_patch" /\ result.kind \in {"User", "None", "raise"}
  /\ du_i < Len(users)
  /\ IF ErrorRaises
     THEN /\ op' = "disable_users" /\ result' = Raised(ErrorException)
          /\ UNCHANGED <<report, du_i>>
     ELSE /\ report' = Append(report, Status(CurrentUser,
                          IF result.kind = "User" /\ ~result.user.active
                          THEN "Success" ELSE "Failed"))
          /\ du_i' = du_i + 1
          /\ result' = Idle
          /\ op' = op
  /\ UNCHANGED <<envVars, params, reqVars, guVars, ops, args, asked, out, log,
                 users, patched, ret, received>>

\* The for loop is over: return report.
DUReturn ==
  /\ result = Idle /\ op # "disable_users" /\ du_i = Len(users)
  /\ op' = "disable_users" /\ result' = Returned
  /\ UNCHANGED <<envVars, params, reqVars, guVars, ops, args, asked, out, log,
                 callerVars, received>>

\* The User objects of the directory's resources.
ListedUsers == {User(Resource(i)) : i \in 1..MaxUsers}

\* disable_users(api, users) is called with a list of up to MaxListed users.
InitDisable ==
  /\ kind = "SCIM" /\ max_retries = DisableRetries /\ server = "api"
  /\ params = SessionParams("Bearer token")
  /\ self_org \in {"", "o1"} /\ dirN = MaxUsers /\ pageSize = 1 /\ nPages = 1
  /\ op = "none" /\ ops = 0 /\ args = EmptyDict /\ result = Idle
  /\ rpc = "none" /\ retries = 0 /\ url = <<>> /\ method = "" /\ kwargs = EmptyDict
  /\ client = EmptyDict /\ rerr = "" /\ response = EmptyDict
  /\ gpc = "none" /\ total_results = 0 /\ next_index = 0 /\ items_per_page = 0
  /\ gparams = EmptyDict /\ gorg = "" /\ pending = <<>>
  /\ asked = 0 /\ out = <<>> /\ log = <<>>
  /\ users \in UNION {[1..n -> ListedUsers] : n \in 0..MaxListed}
  /\ du_i = 0 /\ report = <<>> /\ patched = <<>> /\ ret = <<>>
  /\ received = <<>>

NextDisable ==
  \/ DUSkip \/ DUPatch \/ DUAfterPatch \/ DUReturn
  \/ ListNext \/ ListEnd \/ ListRaise
  \/ ReqTransportError \/ ReqSuccess \/ ReqRateLimit \/ ReqHTTPError \/ ReqExit

SpecDisable == InitDisable /\ [][NextDisable]_vars

\* ------------------------------------------- helpers (webextools/helper.py)
\* An access token is a sequence of tokens: "_", "-", "{", "}", "+", "urn:"
\* and "uuid:" stand for these very characters, a token of HexWords for a run
\* of hexadecimal digits of the length StrLen gives, and "abc" and "g" for
\* runs of letters that are no hexadecimal digits.
HexWords == {"h4", "h8", "h12", "h24", "h31", "h32"}

\* len() of one token.
TokLen(t) ==
  CASE t = "h4" -> 4 [] t = "h8" -> 8 [] t = "h12" -> 12 [] t = "h24" -> 24
    [] t = "h31" -> 31 [] t = "h32" -> 32
    [] t = "urn:" -> 4 [] t = "uuid:" -> 5 [] t = "abc" -> 3
    [] OTHER -> 1

\* len()
RECURSIVE StrLen(_)
StrLen(s) == IF s = <<>> THEN 0 ELSE TokLen(Head(s)) + StrLen(Tail(s))

\* str.replace(x, "") for every x of xs.
Remove(s, xs) == SelectSeq(s, LAMBDA t : t \notin xs)

\* str.strip(chars)
RECURSIVE LStrip(_, _)
LStrip(s, cs) == IF s # <<>> /\ Head(s) \in cs THEN LStrip(Tail(s), cs) ELSE s

RECURSIVE RStrip(_, _)
RStrip(s, cs) ==
  IF s # <<>> /\ Last(s) \in cs THEN RStrip(SubSeq(s, 1, Len(s) - 1), cs) ELSE s

\* int(hex, 16) succeeds: an optional sign, then hexadecimal digits only.
IntBase16(s) ==
  LET d == IF s # <<>> /\ Head(s) = "+" THEN Tail(s) ELSE s IN
  d # <<>> /\ \A i \in 1..Len(d) : d[i] \in HexWords

\* uuid.UUID(hex): "ok" when an object is built, else the exception raised.
UUID(hex) ==
  LET h == Remove(RStrip(LStrip(Remove(hex, {"urn:", "uuid:"}), {"{", "}"}),
                         {"{", "}"}), {"-"}) IN
  IF StrLen(h) # 32 THEN "ValueError"
  ELSE IF ~IntBase16(h) THEN "ValueError"
  ELSE "ok"

\* token.split("_")[-1]
LastPart(token) ==
  LET us == {i \in 1..Len(token) : token[i] = "_"} IN
  IF us = {} THEN token
  ELSE SubSeq(token, (CHOOSE i \in us : \A j \in us : j <= i) + 1, Len(token))

\* get_org_id_from_token: how it ends and what it returns.  A UUID object is
\* always true, so the test of line 224 never takes its branch: a segment
\* uuid.UUID refuses ends the call with its ValueError.
get_org_id_from_token(token) ==
  IF \A i \in 1..Len(token) : token[i] # "_"
  THEN [result |-> Raised("SystemExit"), ret |-> <<>>]
  ELSE LET org_id == LastPart(token) IN
       IF UUID(org_id) # "ok"
       THEN [result |-> Raised("ValueError"), ret |-> <<>>]
       ELSE [result |-> Returned, ret |-> org_id]

\* str.strip(): white space is the token " ".
Strip(t) == RStrip(LStrip(t, {" "}), {" "})

\* prompt_token with the environment variable env (set or not) and the
\* entries the user types at the prompts: the value returned or the exception
\* raised, and the entries left.  getpass at the end of the input raises
\* EOFError.  The value of the recursive call of line 203 is dropped.
RECURSIVE prompt_token(_, _)
prompt_token(env, inputs) ==
  IF env.set THEN [exc |-> "", ret |-> env.value, rest |-> inputs]
  ELSE IF inputs = <<>> THEN [exc |-> "EOFError", ret |-> <<>>, rest |-> inputs]
  ELSE LET token == Head(inputs) IN
       IF Strip(token) = <<>>
       THEN LET inner == prompt_token(env, Tail(inputs)) IN
            IF inner.exc # "" THEN inner
            ELSE [exc |-> "", ret |-> Strip(token), rest |-> inner.rest]
       ELSE [exc |-> "", ret |-> Strip(token), rest |-> Tail(inputs)]

\* --------------------------------------------------- calls of pure functions
MaxUrlLen == 3
MaxParts == 2

UrlTokens == {"https", "HTTPS", ":", "//", "/", "host", "items"}

\* The URLs normalize_url is given.
UrlInputs == UNION {[1..n -> UrlTokens] : n \in 0..MaxUrlLen}

\* xxxxxxxx-xxxx-xxxx-xxxx-xxxxxxxxxxxx
CanonicalUUID == <<"h8", "-", "h4", "-", "h4", "-", "h4", "-", "h12">>

\* The texts a token can end with.
Segments ==
  {CanonicalUUID, <<"h32">>, <<"{">> \o CanonicalUUID \o <<"}">>,
   <<"urn:", "uuid:">> \o CanonicalUUID, <<"{">> \o CanonicalUUID,
   <<"+", "h31">>, <<"h4", "-", "h4", "h24">>, <<"h31">>, <<"g", "h31">>,
   <<"abc">>, <<>>}

\* The texts before a token's last underscore: up to MaxParts parts, each
\* followed by an underscore.
RECURSIVE Prefixes(_)
Prefixes(n) ==
  IF n = 0 THEN {<<>>}
  ELSE Prefixes(n - 1)
       \cup {p \o w \o <<"_">> : p \in Prefixes(n - 1) \ {<<>>},
                                 w \in {<<"abc">>, CanonicalUUID, <<>>}}
       \cup {w \o <<"_">> : w \in {<<"abc">>, CanonicalUUID, <<>>}}

\* The access tokens get_org_id_from_token is given.
TokenInputs == {p \o g : p \in Prefixes(MaxParts), g \in Segments}

\* The keys User.__post_init__ reads from its payload.
PayloadKeys ==
  {"id", "userName", "emails", "displayName", "nickName", "name", "roles",
   "timezone", "active", "userType"}

\* The values of the "name" entry of a payload.
NameValues ==
  {EmptyDict, [givenName |-> "Ann"], [familyName |-> "Lee"],
   [givenName |-> "Ann", familyName |-> "Lee"]}

\* A payload that holds every key.
FullPayload(nm) ==
  [id |-> "u1", userName |-> "ann@x", emails |-> <<"ann@x">>, displayName |-> "Ann Lee",
   nickName |-> "ann", name |-> nm, roles |-> <<"admin">>, timezone |-> "UTC",
   active |-> TRUE, userType |-> "user"]

\* The payloads User is built from: any of the keys may be missing.
UserPayloads ==
  {[k \in ks |-> FullPayload(nm)[k]] : ks \in SUBSET PayloadKeys, nm \in NameValues}

MaxInputs == 3

\* What a user types at one prompt.
Entries == {<<>>, <<" ">>, <<"abc">>, <<" ", "abc", "_", "h32", " ">>}

\* WEBEX_TEAMS_ACCESS_TOKEN: not set, or set to a value.
EnvValues ==
  {[set |-> FALSE, value |-> <<>>], [set |-> TRUE, value |-> <<"abc", "_", "h32">>],
   [set |-> TRUE, value |-> <<>>]}

InitPure ==
  /\ kind = "helper" /\ max_retries = 0 /\ server = "none"
  /\ params = EmptyDict
  /\ self_org = "" /\ dirN = 0 /\ pageSize = 1 /\ nPages = 1
  /\ op = "none" /\ ops = 0 /\ result = Idle
  /\ \/ \E u \in UrlInputs : args = [url |-> u]
     \/ \E t \in TokenInputs : args = [token |-> t]
     \/ \E d \in UserPayloads : args = [data |-> d]
     \/ \E e \in EnvValues, n \in 1..MaxInputs : \E i \in [1..n -> Entries] :
          args = [env |-> e, inputs |-> i]
  /\ rpc = "none" /\ retries = 0 /\ url = <<>> /\ method = "" /\ kwargs = EmptyDict
  /\ client = EmptyDict /\ rerr = "" /\ response = EmptyDict
  /\ gpc = "none" /\ total_results = 0 /\ next_index = 0 /\ items_per_page = 0
  /\ gparams = EmptyDict /\ gorg = "" /\ pending = <<>>
  /\ asked = 0 /\ out = <<>> /\ log = <<>>
  /\ users = <<>> /\ du_i = 0 /\ report = <<>> /\ patched = <<>> /\ ret = <<>>
  /\ received = <<>>

pureFrame == <<envVars, params, reqVars, guVars, asked, out, log,
               users, du_i, report, patched, received, args>>

\* session.normalize_url(args.url)
NormalizeUrl ==
  /\ op = "none" /\ "url" \in DOMAIN args
  /\ op' = "normalize_url" /\ ops' = ops + 1
  /\ ret' = normalize_url(args.url)
  /\ result' = Returned
  /\ UNCHANGED pureFrame

\* get_org_id_from_token(args.token)
GetOrgIdFromToken ==
  /\ op = "none" /\ "token" \in DOMAIN args
  /\ op' = "get_org_id_from_token" /\ ops' = ops + 1
  /\ ret' = get_org_id_from_token(args.token).ret
  /\ result' = get_org_id_from_token(args.token).result
  /\ UNCHANGED pureFrame

\* User(args.data)
NewUser ==
  /\ op = "none" /\ "data" \in DOMAIN args
  /\ op' = "User" /\ ops' = ops + 1
  /\ result' = ReturnedUser(User(args.data))
  /\ UNCHANGED <<pureFrame, ret>>

\* prompt_token() with the environment and the user of args; asked counts the
\* prompts shown: one for each entry read, and the one getpass shows before
\* it raises EOFError at the end of the input.
PromptToken ==
  /\ op = "none" /\ "inputs" \in DOMAIN args
  /\ op' = "prompt_token" /\ ops' = ops + 1
  /\ LET r == prompt_token(args.env, args.inputs) IN
       /\ ret' = r.ret
       /\ result' = IF r.exc # "" THEN Raised(r.exc) ELSE Returned
       /\ asked' = Len(args.inputs) - Len(r.rest) + (IF r.exc = "EOFError" THEN 1 ELSE 0)
  /\ UNCHANGED <<envVars, params, reqVars, guVars, out, log,
                 users, du_i, report, patched, received, args>>

NextPure == NormalizeUrl \/ GetOrgIdFromToken \/ NewUser \/ PromptToken

SpecPure == InitPure /\ [][NextPure]_vars

\* ------------------------- disable_users_main (webextools/disable_users.py)
MaxRows == 3

\* The cells of the e-mail column of the CSV file: empty, text without "@",
\* and e-mail addresses.
Cells == {<<>>, <<"bob">>, <<"ann", "@", "x">>, <<"bob", "@", "x">>}

\* get_emails_from_csv over the column's cells: those that are not empty and
\* hold an "@", in file order.
get_emails_from_csv(rows) ==
  SelectSeq(rows, LAMBDA c : c # <<>> /\ \E i \in 1..Len(c) : c[i] = "@")

\* The parameters SCIM.get_users can be called with (scim.py:16) and the
\* keywords get_user calls it with (disable_users.py:80).
GetUsersParameters == {"org_id"}
LookupKeywords == {"filter"}

\* The process starts with a token in the environment and a CSV file.
InitMain ==
  /\ kind = "none" /\ max_retries = 0 /\ server = "honest"
  /\ params = EmptyDict
  /\ self_org = <<>> /\ dirN = MaxUsers /\ pageSize = 1 /\ nPages = 1
  /\ op = "none" /\ ops = 0 /\ result = Running
  /\ \E tok \in {<<"abc", "_">> \o CanonicalUUID, <<"abc">>},
        n \in 0..MaxRows : \E r \in [1..n -> Cells] :
       args = [env |-> [set |-> TRUE, value |-> tok], inputs |-> <<>>, rows |-> r]
  /\ rpc = "none" /\ retries = 0 /\ url = <<>> /\ method = "" /\ kwargs = EmptyDict
  /\ client = EmptyDict /\ rerr = "" /\ response = EmptyDict
  /\ gpc = "none" /\ total_results = 0 /\ next_index = 0 /\ items_per_page = 0
  /\ gparams = EmptyDict /\ gorg = "" /\ pending = <<>>
  /\ asked = 0 /\ out = <<>> /\ log = <<>>
  /\ users = <<>> /\ du_i = 0 /\ report = <<>> /\ patched = <<>> /\ ret = <<>>
  /\ received = <<>>

\* Lines 121-124: the token, the organization id in it, and the SCIM client,
\* whose session has the default max_retries.
MainToken ==
  /\ op = "none" /\ "rows" \in DOMAIN args
  /\ LET t == prompt_token(args.env, args.inputs)
         g == get_org_id_from_token(t.ret)
     IN /\ ret' = t.ret
        /\ IF g.result # Returned
           THEN /\ op' = "disable_users_main" /\ result' = g.result
                /\ UNCHANGED <<kind, self_org, params, max_retries>>
           ELSE /\ op' = "SCIM" /\ result' = result
                /\ kind' = "SCIM" /\ self_org' = g.ret
                /\ params' = SessionParams("Bearer token")
                /\ max_retries' = DefaultMaxRetries
  /\ UNCHANGED <<server, dirN, pageSize, nPages>>
  /\ UNCHANGED <<reqVars, guVars, ops, args, asked, out, log,
                 users, du_i, report, patched, received>>

\* Line 126: the e-mails of the CSV file; the process exits when there is none.
MainEmails ==
  /\ op = "SCIM"
  /\ out' = get_emails_from_csv(args.rows)
  /\ IF get_emails_from_csv(args.rows) = <<>>
     THEN op' = "disable_users_main" /\ result' = Raised("SystemExit")
     ELSE op' = "lookup" /\ result' = result
  /\ UNCHANGED <<envVars, params, reqVars, guVars, ops, args, asked, log,
                 callerVars, received>>

\* Line 128, one e-mail: get_user(api, email) calls api.get_users with the
\* keyword filter.  A call with a keyword the function has no parameter for
\* raises TypeError before any of its body runs; get_user reports it and
\* exits.  Otherwise the sequence is created, for next() to run.
MainLookup ==
  /\ op = "lookup" /\ du_i < Len(out) /\ gpc = "none"
  /\ IF LookupKeywords \subseteq GetUsersParameters
     THEN /\ gpc' = "fresh" /\ op' = op /\ result' = result
     ELSE /\ gpc' = gpc
          /\ op' = "disable_users_main" /\ result' = Raised("SystemExit")
  /\ ops' = ops + 1
  /\ UNCHANGED <<total_results, next_index, items_per_page, gparams, gorg, pending>>
  /\ UNCHANGED <<envVars, params, reqVars, args, asked, out, log,
                 callerVars, received>>

NextMain == MainToken \/ MainEmails \/ MainLookup

SpecMain == InitMain /\ [][NextMain]_vars

\* A bare session, built without a cookies option, whose server sets cookies.
InitCookies ==
  /\ kind = "Session" /\ max_retries = CookieRetries /\ server = "cookies"
  /\ \E authorization \in {"", "Bearer token"} : params = SessionParams(authorization)
  /\ self_org = "" /\ dirN = 0 /\ pageSize = 1 /\ nPages = 1
  /\ op = "none" /\ ops = 0 /\ args = EmptyDict /\ result = Idle
  /\ rpc = "none" /\ retries = 0 /\ url = <<>> /\ method = "" /\ kwargs = EmptyDict
  /\ client = EmptyDict /\ rerr = "" /\ response = EmptyDict
  /\ gpc = "none" /\ total_results = 0 /\ next_index = 0 /\ items_per_page = 0
  /\ gparams = EmptyDict /\ gorg = "" /\ pending = <<>>
  /\ asked = 0 /\ out = <<>> /\ log = <<>>
  /\ users = <<>> /\ du_i = 0 /\ report = <<>> /\ patched = <<>> /\ ret = <<>>
  /\ received = <<>>

NextCookies ==
  \/ StartRequest \/ ConsumerNext \/ ConsumerEnd \/ Abandon
  \/ ReqSuccess \/ ReqRateLimit \/ ReqProxyAuth \/ ReqHTTPError \/ ReqExit

SpecCookies == InitCookies /\ [][NextCookies]_vars

\* A SCIM client with a default org_id, against a server that answers every
\* list request with some list document.
InitPages ==
  /\ kind = "SCIM" /\ max_retries = MaxRetries /\ server = "arbitrary"
  /\ params = SessionParams("Bearer token")
  /\ self_org = "o1" /\ dirN = 1 /\ pageSize = 1 /\ nPages = 1
  /\ op = "none" /\ ops = 0 /\ args = EmptyDict /\ result = Idle
  /\ rpc = "none" /\ retries = 0 /\ url = <<>> /\ method = "" /\ kwargs = EmptyDict
  /\ client = EmptyDict /\ rerr = "" /\ response = EmptyDict
  /\ gpc = "none" /\ total_results = 0 /\ next_index = 0 /\ items_per_page = 0
  /\ gparams = EmptyDict /\ gorg = "" /\ pending = <<>>
  /\ asked = 0 /\ out = <<>> /\ log = <<>>
  /\ users = <<>> /\ du_i = 0 /\ report = <<>> /\ patched = <<>> /\ ret = <<>>
  /\ received = <<>>

NextPages ==
  \/ StartGetUsers \/ GUNext \/ GUTop \/ GUItem \/ GUYield \/ GUPageDone
  \/ GUForEnd \/ Abandon
  \/ ReqSuccess \/ ReqExit

SpecPages == InitPages /\ [][NextPages]_vars

\* ================================================================== claims
Recvs == OfType("recv")

IsPrefix(a, b) == Len(a) <= Len(b) /\ SubSeq(b, 1, Len(a)) = a

\* The records a full listing of the directory yields, in directory order.
AllUsers == [i \in 1..dirN |-> User(Resource(i))]

\* A status that is an HTTP error other than 429 and 407.
FatalStatus(st) ==
  st >= 400 /\ st <= 599 /\ st # 429 /\ st # 407

\* C1: against a server exposing nPages linked pages, a Session.request
\* sequence that has ended has yielded the nPages pages in page order (it
\* ends only after a response without a next link).
C1_FollowsNextLinks ==
  (op = "request" /\ server = "honest" /\ rpc = "done")
    => /\ Len(Yields) = nPages
       /\ \A k \in 1..Len(Yields) : Yields[k].v.body.data.page = PageNames[k]

\* C2: against a directory of dirN resources served in pages by a server
\* that honours startIndex, get_users yields each resource once, in
\* directory order, and has yielded all dirN when it terminates.
C2_YieldsEachUserOnce ==
  (op = "get_users" /\ server = "honest")
    => /\ IsPrefix(out, AllUsers)
       /\ (result = Exhausted => out = AllUsers)

\* C3: when totalResults = itemsPerPage * P for a P >= 1, get_users makes
\* at most P page fetches, and exactly P once it has terminated.
C3_ExactlyPFetches ==
  (op = "get_users" /\ server = "honest" /\ dirN >= 1 /\ dirN % pageSize = 0)
    => /\ NCalls <= dirN \div pageSize
       /\ (result = Exhausted => NCalls = dirN \div pageSize)

\* C4: every page request of get_users carries on the wire the params the
\* loop built for it: startIndex = 1 on the first request, and the loop's
\* current startIndex / count on the latest one.
C4_StartIndexOnTheWire ==
  (op = "get_users" /\ NCalls >= 1)
    => /\ \A i \in 1..NCalls : "params" \in DOMAIN Calls[i].v.kwargs
       /\ Calls[1].v.kwargs.params = [startIndex |-> 1]
       /\ Calls[NCalls].v.kwargs.params = gparams

\* C5: a request whose every attempt was answered 429 never ends as a
\* normal (empty) sequence: it ends with an error.
C5_ExhaustedRetriesRaise ==
  ~ /\ op \in {"request", "get_user", "update_user_patch"}
    /\ rpc = "done"
    /\ Recvs # <<>>
    /\ \A i \in 1..Len(Recvs) : Recvs[i].v.status = TOO_MANY_REQUESTS

\* C6: when the first attempt of a request gets 429 and the second a success
\* status, the retry counter is 1, the second call equals the first (method,
\* URL, options), and the first response yielded is the successful one; no
\* 429 response is ever yielded.
C6_OneRetryThenSuccess ==
  /\ \A k \in 1..Len(Yields) : Yields[k].v.status # 429
  /\ (/\ op \in {"request", "get_user", "update_user_patch"}
      /\ Len(Recvs) >= 2
      /\ Recvs[1].v.status = 429
      /\ Recvs[2].v.status \in {200, 201, 202, 204})
       => /\ retries = 1
          /\ Len(log) >= 6
          /\ log[1].t = "call" /\ log[2].t = "recv" /\ log[3].t = "sleep"
          /\ log[4].t = "call" /\ log[4].v = log[1].v
          /\ log[5] = Recvs[2]
          /\ log[6].t = "yield" /\ log[6].v = Recvs[2].v
          /\ Yields[1].v = Recvs[2].v

C6_Witness ==
  /\ op = "update_user_patch" /\ rpc = "done"
  /\ Len(Recvs) = 2 /\ Recvs[1].v.status = 429 /\ Recvs[2].v.status = 200
  /\ Len(Yields) = 1

\* C7: every 429 response is followed at once by one sleep of the seconds of
\* its Retry-After header, 15 when the header is absent, and the event after
\* that sleep is not a second sleep: the retry, if any, comes after it.
C7_SleepsRetryAfter ==
  \A i \in 1..Len(log) :
    (log[i].t = "recv" /\ log[i].v.status = 429)
      => /\ i + 1 <= Len(log)
         /\ log[i + 1].t = "sleep"
         /\ log[i + 1].v = (IF "Retry-After" \in DOMAIN log[i].v.headers
                            THEN (IF log[i].v.headers["Retry-After"] = "3" THEN 3 ELSE 0)
                            ELSE 15)
         /\ (i + 2 <= Len(log) => log[i + 2].t # "sleep")
         /\ log[i - 1].t = "call"

C7_Witness ==
  /\ Len(log) >= 7
  /\ log[2].t = "recv" /\ log[2].v.status = 429 /\ "Retry-After" \in DOMAIN log[2].v.headers
  /\ log[3] = Event("sleep", 3)
  /\ log[5].t = "recv" /\ log[5].v.status = 429 /\ DOMAIN log[5].v.headers = {}
  /\ log[6] = Event("sleep", 15)
  /\ log[7].t = "call"

\* C8: an attempt that ends in a transport error or in an HTTP error status
\* other than 429 and 407 is the last network activity of the operation: its
\* error is raised (nothing is yielded for it, no call follows), whatever
\* the retry counter, and the operation ends with that error.
C8_FatalErrorsPropagate ==
  /\ \A i \in 1..Len(log) :
       (log[i].t = "recv" /\ FatalStatus(log[i].v.status))
         => /\ Len(log) = i + 1
            /\ log[i + 1] = Event("error", "HTTPStatusError")
  /\ \A i \in 1..Len(log) :
       (log[i].t = "error" /\ log[i].v \in {"RequestError", "HTTPStatusError"})
         => /\ Len(log) = i
            /\ rpc = "raised" /\ rerr = log[i].v
            /\ result \in {Running, Raised(log[i].v)}
            /\ (log[i].v = "RequestError" => log[i - 1].t = "call")

C8_Witness ==
  /\ retries >= 1
  /\ result = Raised("HTTPStatusError")
  /\ Last(log) = Event("error", "HTTPStatusError")
  /\ log[Len(log) - 1].v.status = 500

\* C9: get_user returns None when the server answered with a success status
\* and an empty body.
C9_EmptyBodyIsNone ==
  (/\ op = "get_user" /\ result.kind \notin {"running", "idle"}
   /\ Yields # <<>> /\ ~Yields[1].v.body.json)
    => result = ReturnedNone

\* C10: get_user and update_user_patch return None only after the server
\* returned a successful response; a request that failed gives an error.
C10_NoneOnlyAfterSuccess ==
  (op \in {"get_user", "update_user_patch"} /\ result = ReturnedNone)
    => \E i \in 1..Len(Recvs) : Recvs[i].v.status \in {200, 201, 202, 204}

\* C11: update_user_patch called with a patch document that is not a mapping
\* or lacks "schemas" or "Operations" ends with ValueError, and no request
\* sequence was created and no network call made.
C11_InvalidPatchRejected ==
  (/\ op = "update_user_patch"
   /\ \/ ~args.data.is_dict
      \/ "schemas" \notin DOMAIN args.data.d
      \/ "Operations" \notin DOMAIN args.data.d)
    => /\ result = Raised("ValueError")
       /\ rpc = "none"
       /\ log = <<>>

C11_Witness ==
  /\ op = "update_user_patch" /\ args.org_id = "o2"
  /\ args.data.is_dict /\ DOMAIN args.data.d = {"schemas"}
  /\ result = Raised("ValueError")

\* The organization a SCIM operation was asked for has the argument first,
\* the client's default second.
WantedOrg == IF args.org_id # "" THEN args.org_id ELSE self_org

\* The position of the organization id in a normalized SCIM URL.
OrgPos == Len(base_url) + 4

\* C12: a SCIM operation given no org_id on a client without default org_id
\* makes no network call and ends with ValueError (get_users, a generator,
\* when its first element is asked for); every request a SCIM operation
\* sends names the org_id argument when one was given, else the default.
C12_OrgIdRequired ==
  /\ (op \in {"get_user", "update_user_patch"} /\ WantedOrg = "")
       => (result = Raised("ValueError") /\ rpc = "none" /\ log = <<>>)
  /\ (op = "get_users" /\ WantedOrg = "")
       => /\ rpc = "none" /\ log = <<>>
          /\ \/ gpc = "fresh" /\ asked = 0 /\ result = Running
             \/ gpc = "raised" /\ asked = 1 /\ result = Raised("ValueError")
  /\ (op \in {"get_users", "get_user", "update_user_patch"})
       => \A i \in 1..NCalls : Calls[i].v.url[OrgPos] = WantedOrg

C12_Witness ==
  /\ op = "get_users" /\ args.org_id = "" /\ self_org = ""
  /\ asked = 1 /\ result = Raised("ValueError") /\ log = <<>>

\* C13: get_users never fetches pages forever, whatever list documents the
\* server answers with: no pass of its loop starts from the cursor of the pass
\* before or from one behind it (the loop keeps no other count of its
\* passes, so a cursor that does not advance can repeat without end).
C13_GetUsersTerminates ==
  (op = "get_users" /\ gpc = "top" /\ gparams # EmptyDict)
    => next_index > gparams.startIndex

\* C14: get_users makes no further page fetch once a page came back with no
\* items: every list request after the first follows a page that held some.
C14_StopsOnEmptyPage ==
  (op = "get_users" /\ server = "arbitrary")
    => \A i \in 2..NCalls : ResourcesOf(Yields[i - 1].v.body.data) # <<>>

Prompts == OfType("prompt")

\* C15: a 407 response is followed by one prompt for proxy credentials, the
\* credentials are then installed in the session's headers and, if anything
\* follows, it is the same request sent again; this for sessions with and
\* without authorization, and with at most one prompt however many 407s.
C15_ProxyPromptOnce ==
  /\ Len(Prompts) <= 1
  /\ \A i \in 1..Len(log) :
       (log[i].t = "recv" /\ log[i].v.status = 407)
         => /\ i + 1 <= Len(log)
            /\ log[i + 1].t = "prompt"
            /\ "headers" \in DOMAIN params
            /\ "Proxy-Authorization" \in DOMAIN params.headers
            /\ (i + 2 <= Len(log)
                  => /\ log[i + 2].t = "call"
                     /\ log[i + 2].v.method = log[i - 1].v.method
                     /\ log[i + 2].v.url = log[i - 1].v.url)

\* C16: the sequences are driven by their consumer alone.  Responses yielded
\* by Session.request, page fetches that succeeded and records yielded by
\* get_users never outnumber the elements asked for; the request loop runs
\* only while an element that was asked for is outstanding; nothing happens
\* on the network before the first element is asked for; and after the
\* consumer dropped a sequence the last event stays the yield it stopped at.
C16_LazyPagination ==
  /\ op = "request"
       => /\ Len(Yields) <= asked
          /\ (rpc = "run" => asked = Len(Yields) + 1)
          /\ (asked = 0 => log = <<>>)
  /\ op = "get_users"
       => /\ Len(Yields) <= asked
          /\ Len(out) <= asked
          /\ (rpc = "run" => asked = Len(out) + 1)
          /\ (asked = 0 => log = <<>>)
  /\ result = Abandoned
       => /\ log # <<>> /\ Last(log).t = "yield"
          /\ rpc = "closed"

\* The right-biased merge of a sequence of cookie sets: each name has the
\* value of the last set that holds it.
MergeAll(h) ==
  LET names == UNION {DOMAIN h[i] : i \in 1..Len(h)}
      last(n) == CHOOSE i \in 1..Len(h) :
                   /\ n \in DOMAIN h[i]
                   /\ \A j \in (i + 1)..Len(h) : n \notin DOMAIN h[j]
  IN [n \in names |-> h[last(n)][n]]

\* C17: the cookies stored in the session's options are the right-biased
\* merge, in arrival order, of the cookies of all responses the session has
\* processed, and a request() call that is asked for its first response
\* builds its client with exactly these cookies.
C17_CookiesMerged ==
  /\ Get(params, "cookies", EmptyDict) = MergeAll(received)
  /\ (op = "request" /\ asked >= 1 /\ NCalls = 0)
       => /\ rpc = "run"
          /\ Get(client, "cookies", EmptyDict) = MergeAll(received)

\* urlparse finds a scheme in the URL (schemes are case-insensitive).
HasScheme(u) == UrlScheme(u) # <<>>

\* C18: normalize_url gives base_url + "/" + url for a URL without a scheme,
\* the URL itself for a URL with a scheme, and normalizing its result again
\* changes nothing.
C18_NormalizeUrl ==
  op = "normalize_url"
    => /\ ~HasScheme(args.url) => ret = base_url \o <<"/">> \o args.url
       /\ HasScheme(args.url) => ret = args.url
       /\ normalize_url(ret) = ret

\* A well-formed UUID: 32 hexadecimal digits, bare or in the 8-4-4-4-12
\* groups, possibly in one pair of braces or after "urn:uuid:".
WellFormedUUID(g) ==
  LET forms == {CanonicalUUID, <<"h32">>} IN
  \/ g \in forms
  \/ \E f \in forms : g = <<"{">> \o f \o <<"}">> \/ g = <<"urn:", "uuid:">> \o f

\* C20: for a token with an underscore whose last segment is a well-formed
\* UUID, get_org_id_from_token returns that segment; for every other token
\* it ends in an error and returns nothing.
C20_OrgIdFromToken ==
  op = "get_org_id_from_token"
    => IF "_" \in {args.token[i] : i \in 1..Len(args.token)}
          /\ WellFormedUUID(LastPart(args.token))
       THEN result = Returned /\ ret = LastPart(args.token)
       ELSE result.kind = "raise" /\ ret = <<>>

\* The users among the first n of the list whose active flag is set.
ActiveAmong(n) == SelectSeq(SubSeq(users, 1, n), LAMBDA u : u.active)

\* C19: disable_users goes through its list in order and returns a report
\* with one entry per user, in the order of the list: "Skipped" and no call
\* of update_user_patch for a user that is not active, "Success" or "Failed"
\* and exactly one call of update_user_patch for an active one.
C19_OneEntryPerUser ==
  /\ Len(report) = du_i
  /\ \A k \in 1..Len(report) :
       /\ report[k].id = users[k].id /\ report[k].email = users[k].user_name
       /\ ~users[k].active => report[k].updated = "Skipped"
       /\ users[k].active => report[k].updated \in {"Success", "Failed"}
  /\ LET n == IF op = "update_user_patch" /\ result # Idle THEN du_i + 1 ELSE du_i IN
     patched = [k \in 1..Len(ActiveAmong(n)) |-> ActiveAmong(n)[k].id]
  /\ op = "disable_users" => result = Returned /\ du_i = Len(users)

\* The payload key each attribute of a User is read from (first_name and
\* last_name are read from the mapping under "name").
KeyOf ==
  [id |-> "id", user_name |-> "userName", emails |-> "emails",
   display_name |-> "displayName", nick_name |-> "nickName", roles |-> "roles",
   timezone |-> "timezone", active |-> "active", type |-> "userType"]

\* The defaults of the attributes of a User.
Defaults ==
  [id |-> "", user_name |-> "", emails |-> <<>>, display_name |-> "", nick_name |-> "",
   first_name |-> "", last_name |-> "", roles |-> <<>>, timezone |-> "",
   active |-> FALSE, type |-> ""]

\* C21: a User is built from every payload, whichever keys it lacks; an
\* attribute whose key is absent holds its default and an attribute whose key
\* is present holds the value of the payload.
C21_UserDefaults ==
  op = "User"
    => /\ result.kind = "User"
       /\ \A a \in DOMAIN KeyOf :
            IF KeyOf[a] \in DOMAIN args.data
            THEN result.user[a] = args.data[KeyOf[a]]
            ELSE result.user[a] = Defaults[a]
       /\ LET hasName == "name" \in DOMAIN args.data IN
          /\ IF hasName /\ "givenName" \in DOMAIN args.data.name
             THEN result.user.first_name = args.data.name.givenName
             ELSE result.user.first_name = Defaults.first_name
          /\ IF hasName /\ "familyName" \in DOMAIN args.data.name
             THEN result.user.last_name = args.data.name.familyName
             ELSE result.user.last_name = Defaults.last_name

C21_Witness ==
  /\ op = "User" /\ result.kind = "User"
  /\ DOMAIN args.data = {"id", "name", "emails"}
  /\ args.data.name = [givenName |-> "Ann"]
  /\ result.user.first_name = "Ann" /\ result.user.last_name = ""
  /\ ~result.user.active /\ result.user.emails = <<"ann@x">>

\* The responses of op that ask for a retry: 429 and 407.
RetryRecvs ==
  SelectSeq(log, LAMBDA e : e.t = "recv" /\ e.v.status \in {TOO_MANY_REQUESTS,
                                                            PROXY_AUTHENTICATION_REQUIRED})

\* The positions in the log of the 429 and 407 responses that a later attempt
\* of the same call follows.
Retried ==
  {i \in 1..Len(log) :
     /\ log[i].t = "recv"
     /\ log[i].v.status \in {TOO_MANY_REQUESTS, PROXY_AUTHENTICATION_REQUIRED}
     /\ \E j \in (i + 1)..Len(log) : log[j].t = "call"}

OneRequest == op \in {"request", "get_user", "update_user_patch"}

\* C22: one request() call makes at most max_retries + 1 attempts that end
\* in 429 or 407 and at most max_retries + 2 network calls in all; once it
\* has yielded a response its loop has no URL left to request.
C22_RequestIsFinite ==
  OneRequest
    => /\ Len(RetryRecvs) <= max_retries + 1
       /\ NCalls <= max_retries + 2
       /\ (Yields # <<>> /\ rpc = "run") => ~LoopCond

C22_Witness ==
  /\ op = "request" /\ max_retries = MaxRetries /\ rpc = "done"
  /\ Len(RetryRecvs) = MaxRetries + 1 /\ NCalls = MaxRetries + 1

\* C23: within one request() call the 429 and 407 responses that are followed
\* by a retry number at most max_retries together, the retry counter counts
\* both kinds, and a request() call that starts running starts at 0, also
\* after an earlier call of the session used retries up.
C23_SharedRetryBudget ==
  OneRequest
    => /\ Cardinality(Retried) <= max_retries
       /\ (rpc \in {"run", "yield", "done"} => retries = Len(RetryRecvs))
       /\ (rpc = "run" /\ log = <<>>) => retries = 0

C23_Witness ==
  /\ op = "request" /\ ops = 2 /\ max_retries = 1 /\ rpc = "done"
  /\ Len(Recvs) = 2
  /\ Recvs[1].v.status = TOO_MANY_REQUESTS
  /\ Recvs[2].v.status = PROXY_AUTHENTICATION_REQUIRED
  /\ Cardinality(Retried) = 1 /\ retries = 2

\* C26: once a 407 has made the session prompt for proxy credentials, every
\* later attempt of the same request() call carries them in its
\* Proxy-Authorization header, and so does every attempt of a later request()
\* call of the session, which does not fail to build its client.
C26_ProxyCredentialsSent ==
  /\ \A i \in 1..Len(log) : \A j \in (i + 1)..Len(log) :
       (log[i].t = "prompt" /\ log[j].t = "call")
         => /\ "Proxy-Authorization" \in DOMAIN log[j].v.headers
            /\ log[j].v.headers["Proxy-Authorization"] = log[i].v
  /\ ("headers" \in DOMAIN params /\ "Proxy-Authorization" \in DOMAIN params.headers
        /\ Prompts = <<>>)
       => \A j \in 1..NCalls : "Proxy-Authorization" \in DOMAIN Calls[j].v.headers
  /\ rerr # "TypeError"

\* C24: total_results is set by the first page of get_users and no later
\* page changes it, a total of 0 included, while items_per_page and
\* next_index are read again from every page.
C24_TotalFromFirstPage ==
  [][(op = "get_users" /\ gpc = "for" /\ gpc' = "pending")
       => LET data == response.body.data IN
          /\ items_per_page' = Get(data, "itemsPerPage", 0)
          /\ next_index' = Get(data, "startIndex", 1) + Get(data, "itemsPerPage", 0)
          /\ total_results' = IF NCalls = 1
                              THEN Get(data, "totalResults", 0)
                              ELSE total_results]_vars

\* The call of update_user_patch that has just ended handed back a User
\* whose active flag is false: its request yielded a response with a JSON
\* document in which "active" is false.
PatchDisabled ==
  /\ rpc = "done" /\ Yields # <<>>
  /\ Yields[1].v.body.json
  /\ "active" \in DOMAIN Yields[1].v.body.data
  /\ ~Yields[1].v.body.data.active

\* C25: the entry of an active user is "Success" exactly when its patch call
\* returned a User that is not active and "Failed" in every other case (None,
\* a User still active, any exception), and no failure of a patch call ends
\* disable_users before the users left are processed.
C25_SuccessOrFailed ==
  /\ (op = "update_user_patch" /\ result = Idle /\ du_i >= 1 /\ users[du_i].active)
       => report[du_i].updated = (IF PatchDisabled THEN "Success" ELSE "Failed")
  /\ ~(op = "disable_users" /\ result.kind = "raise")

\* The entry is blank: nothing but white space.
Blank(t) == \A i \in 1..Len(t) : t[i] = " "

\* C28: with the environment variable set prompt_token returns its value and
\* shows no prompt; without it, a token it returns is never empty, and after
\* one or more blank entries followed by a non-blank one it returns that
\* entry, stripped.
C28_PromptTokenNeverEmpty ==
  op = "prompt_token"
    => /\ args.env.set => (result = Returned /\ ret = args.env.value /\ asked = 0)
       /\ (~args.env.set /\ result = Returned) => ret # <<>>
       /\ \A k \in 2..Len(args.inputs) :
            (/\ ~args.env.set
             /\ \A j \in 1..(k - 1) : Blank(args.inputs[j])
             /\ ~Blank(args.inputs[k]))
              => /\ result = Returned
                 /\ ret = Strip(args.inputs[k])
                 /\ asked = k

\* C27: the lookup step of disable_users_main does not end the process, and
\* while it runs the list of users holds one record per e-mail looked up so
\* far, in the order of the CSV file.
C27_LookupPerEmail ==
  /\ ~(op = "disable_users_main" /\ out # <<>> /\ result.kind = "raise")
  /\ op = "lookup"
       => /\ Len(users) = du_i
          /\ \A k \in 1..du_i : users[k].user_name = out[k]

====
